---- MODULE Spec2Model ----
(***************************************************************************)
(* A model of the summarization service of src/app.py: the chunker         *)
(* chunk_text, the title derivation and the /summarize request handler     *)
(* with its collaborators (tokenizer, summarizer, document store, logger). *)
(*                                                                         *)
(* A Python str is a sequence of one-character strings, so that split,     *)
(* join, slicing and endswith are computed the way Python computes them.   *)
(***************************************************************************)
EXTENDS Integers, Sequences, FiniteSets, TLC

\* ------------------------------------------------------------------ bounds

\* Longest text given to the chunker on its own (characters).
MaxTextLen == 8
\* Largest max_words given to the chunker on its own.
MaxWords == 4
\* Most words of a summary given to the title derivation on its own.
MaxSummaryWords == 14
\* Most requests served in one run of the handler, with every kind of input.
MaxRequests == 1
\* Most requests served in one run of the handler, with the inputs of SeqData.
MaxSeqRequests == 3
\* Most chunks a request text of the handler splits into.
MaxChunks == 2

\* ------------------------------------------------------- program constants

MAX_TOKENS == 1024
DEFAULT_MAX_WORDS == 700
DEFAULT_OVERLAP == 100
TITLE_WORDS == 12
SHORT_INPUT_WORDS == 10

\* --------------------------------------------------------- Python strings

Whitespace == {" ", "\n"}

Min(a, b) == IF a <= b THEN a ELSE b

Max(a, b) == IF a >= b THEN a ELSE b

\* Position i of s starts a word: a non-whitespace character that is first
\* or follows whitespace.
IsWordStart(s, i) ==
    /\ s[i] \notin Whitespace
    /\ (i = 1 \/ s[i - 1] \in Whitespace)

\* Position i of s ends a word.
IsWordEnd(s, i) ==
    /\ s[i] \notin Whitespace
    /\ (i = Len(s) \/ s[i + 1] \in Whitespace)

\* The positions of s where a word starts, ascending.
WordStarts(s) ==
    SelectSeq([i \in 1..Len(s) |-> i], LAMBDA i : IsWordStart(s, i))

\* The positions of s where a word ends, ascending.
WordEnds(s) ==
    SelectSeq([i \in 1..Len(s) |-> i], LAMBDA i : IsWordEnd(s, i))

\* str.split(): the maximal runs of non-whitespace characters, in order.
split(s) ==
    LET st == WordStarts(s)
        en == WordEnds(s)
    IN  [k \in 1..Len(st) |-> SubSeq(s, st[k], en[k])]

RECURSIVE JoinRange(_, _, _, _)
JoinRange(sep, ws, lo, hi) ==
    IF lo > hi THEN <<>>
    ELSE IF lo = hi THEN ws[lo]
    ELSE LET mid == (lo + hi) \div 2
         IN  JoinRange(sep, ws, lo, mid) \o sep \o JoinRange(sep, ws, mid + 1, hi)

\* sep.join(ws)
join(sep, ws) == JoinRange(sep, ws, 1, Len(ws))

\* ws[i:j] for 0 <= i <= j (Python's 0-based, end-exclusive, clamped slice).
slice(ws, i, j) == SubSeq(ws, i + 1, Min(j, Len(ws)))

\* s.endswith(suffix)
endswith(s, suffix) ==
    /\ Len(s) >= Len(suffix)
    /\ SubSeq(s, Len(s) - Len(suffix) + 1, Len(s)) = suffix

\* list(range(start, stop, step)) for step > 0; a negative step from
\* start <= stop gives the empty range.
range(start, stop, step) ==
    IF step <= 0 \/ stop <= start THEN <<>>
    ELSE [k \in 1..((stop - start + step - 1) \div step) |-> start + (k - 1) * step]

SPACE == <<" ">>

\* ---------------------------------------------------------------- chunker

\* A faulty step: the overlap is added to the window instead of subtracted.
ChunkStepWide(max_words, overlap) == max_words + overlap

\* A faulty step: the window slides by one word.
ChunkStepOne(max_words, overlap) == 1

\* The distance between the starts of consecutive windows.
ChunkStep(max_words, overlap) == max_words - overlap

\* A faulty window: one word short.
ChunkAtShort(words, i, max_words) == join(SPACE, slice(words, i, i + max_words - 1))

\* The chunk yielded at index i of the loop.
ChunkAt(words, i, max_words) == join(SPACE, slice(words, i, i + max_words))

\* The indices the loop of chunk_text visits.
ChunkIndices(words, max_words, overlap) ==
    range(0, Len(words), ChunkStep(max_words, overlap))

\* list(chunk_text(text, max_words, overlap))
chunk_text(text, max_words, overlap) ==
    LET words == split(text)
        idx == ChunkIndices(words, max_words, overlap)
    IN  [k \in 1..Len(idx) |-> ChunkAt(words, idx[k], max_words)]


\* ------------------------------------------------------- title derivation

UNTITLED == <<"U", "n", "t", "i", "t", "l", "e", "d", " ", "S", "u", "m", "m", "a", "r", "y">>

ELLIPSIS == <<".", ".", ".">>

PERIOD == <<".">>

\* The title of a summary: its first TITLE_WORDS words, the fallback when
\* that is empty, then the ellipsis unless the title ends with a period.
TitleOf(summary) ==
    LET t0 == join(SPACE, slice(split(summary), 0, TITLE_WORDS))
        t1 == IF t0 = <<>> THEN UNTITLED ELSE t0
    IN  IF ~endswith(t1, PERIOD) THEN t1 \o ELLIPSIS ELSE t1

\* ------------------------------------------------------ request handling

\* dict.get(key, default) on the request's JSON object.
get(data, key, default) == IF key \in DOMAIN data THEN data[key] ELSE default

\* A faulty validation: `text is None`, which the default "" never is.
not_text_is_none(text) == FALSE

\* `not text`: the empty string is falsy.
not_text(text) == text = <<>>

\* The (min_length, max_length) preset of a requested length.
LengthPreset(length) ==
    CASE length = "short"  -> <<15, 30>>
      [] length = "medium" -> <<50, 100>>
      [] length = "long"   -> <<100, 180>>
      [] OTHER             -> <<50, 100>>

preset_min(preset) == preset[1]

preset_max(preset) == preset[2]

\* Faulty arguments of the chunk call: sampling follows the mode.
ChunkKwargsSampling(preset, mode) ==
    [max_length |-> preset_max(preset), min_length |-> preset_min(preset),
     do_sample |-> (mode = "creative")]

\* Keyword arguments of the summarizer call on one chunk.
ChunkKwargs(preset, mode) ==
    [max_length |-> preset_max(preset), min_length |-> preset_min(preset),
     do_sample |-> FALSE]

\* Keyword arguments of the summarizer call of summarize_combined_chunks.
CombinedKwargs(preset, mode) ==
    [max_length |-> preset_max(preset), min_length |-> preset_min(preset),
     num_beams |-> 5, do_sample |-> (mode = "creative"),
     temperature |-> "1.2", top_k |-> 100, top_p |-> "0.95"]

\* Faulty arguments of the direct call: those of the recombination call.
DirectKwargsAsCombined(preset, mode) == CombinedKwargs(preset, mode)

\* Keyword arguments of the summarizer call on the whole text.
DirectKwargs(preset, mode) ==
    [max_length |-> preset_max(preset), min_length |-> preset_min(preset),
     num_beams |-> 5, do_sample |-> (mode = "creative"),
     temperature |-> "1.2", top_k |-> 50, top_p |-> "0.9"]

\* A faulty record: success is not set.
SummaryRecordUnsuccessful(text, summary, title, now) ==
    [text |-> text, summary |-> summary, title |-> title, createdAt |-> now,
     success |-> FALSE, error |-> ""]

\* A SummaryRecord as the handler constructs it; error keeps its default.
SummaryRecord(text, summary, title, now) ==
    [text |-> text, summary |-> summary, title |-> title, createdAt |-> now,
     success |-> TRUE, error |-> ""]

NoExc == [type |-> "None", msg |-> ""]

\* A faulty handler: the IndexError clause is missing.
ExceptResponseGeneric(e) == [status |-> 500, body |-> [error |-> e.msg]]

\* The response of the except clauses for exception e.
ExceptResponse(e) ==
    IF e.type = "IndexError"
    THEN [status |-> 500, body |-> [error |-> "Index error during summarization."]]
    ELSE [status |-> 500, body |-> [error |-> e.msg]]

\* The line the except clauses log for exception e.
ExceptLog(e) ==
    IF e.type = "IndexError"
    THEN [level |-> "error", msg |-> "IndexError: {e}"]
    ELSE [level |-> "error", msg |-> "Error: {e}"]

NoResponse == [status |-> 0, body |-> [error |-> ""]]


\* ------------------------------------------------------------------ state

VARIABLES
    \* the /summarize handler and its collaborators
    pc,            \* where the handler is: idle, tokenize, chunks, direct, save, done
    text,          \* data.get("text", "")
    length,        \* data.get("length", "medium")
    mode,          \* data.get("mode", "reliable")
    preset,        \* (preset_min, preset_max)
    input_tokens,  \* the token count, -1 before the tokenizer returned
    chunks,        \* list(chunk_text(text))
    partials,      \* the chunk summaries so far
    summary,       \* the final summary
    title,         \* the derived title
    calls,         \* the summarizer calls of this request, in order
    outs,          \* the summary texts those calls returned, in order
    tok_calls,     \* the tokenizer calls of this request
    raised,        \* the exception raised in this request, NoExc if none
    log,           \* the lines this request logged, in order
    response,      \* the response of this request, NoResponse before it returns
    records,       \* the persisted SummaryRecords, in order of creation
    served,        \* the status of every returned response, in order
    \* the chunk_text generator on its own
    g_pc,          \* ready, running, done
    g_text, g_max_words, g_overlap,
    g_next,        \* how many indices of the range the loop has visited
    g_starts,      \* the loop index of every chunk yielded
    g_out,         \* the chunks yielded
    \* the title derivation on its own
    t_pc, t_summary, t_title

handlerVars == <<pc, text, length, mode, preset, input_tokens, chunks, partials,
                 summary, title, calls, outs, tok_calls, raised, log,
                 response, records, served>>

genVars == <<g_pc, g_text, g_max_words, g_overlap, g_next, g_starts, g_out>>

titleVars == <<t_pc, t_summary, t_title>>

vars == <<handlerVars, genVars, titleVars>>

HandlerIdle ==
    /\ pc = "idle"
    /\ text = <<>>
    /\ length = "medium"
    /\ mode = "reliable"
    /\ preset = <<0, 0>>
    /\ input_tokens = -1
    /\ chunks = <<>>
    /\ partials = <<>>
    /\ summary = <<>>
    /\ title = <<>>
    /\ calls = <<>>
    /\ outs = <<>>
    /\ tok_calls = 0
    /\ raised = NoExc
    /\ log = <<>>
    /\ response = NoResponse
    /\ records = <<>>
    /\ served = <<>>

GenIdle ==
    /\ g_pc = "idle"
    /\ g_text = <<>>
    /\ g_max_words = DEFAULT_MAX_WORDS
    /\ g_overlap = DEFAULT_OVERLAP
    /\ g_next = 0
    /\ g_starts = <<>>
    /\ g_out = <<>>

TitleIdle ==
    /\ t_pc = "idle"
    /\ t_summary = <<>>
    /\ t_title = <<>>

\* -------------------------------------------------- the handler's inputs

\* Word k of a request text.
Letter(k) == <<<<"a">>, <<"b">>, <<"c">>>>[(k % 3) + 1]

\* A text of n words separated by single spaces.
TextOfWords(n) == join(SPACE, [k \in 1..n |-> Letter(k)])

\* Word counts of the request texts: below the short-input threshold, and
\* one word more than k window steps (k + 1 chunks).
RequestWordCounts ==
    {SHORT_INPUT_WORDS - 1}
        \cup {k * ChunkStep(DEFAULT_MAX_WORDS, DEFAULT_OVERLAP) + 1 : k \in 1..(MaxChunks - 1)}

\* The texts a request carries: empty, whitespace only, and texts of words.
RequestTexts == {<<>>, SPACE} \cup {TextOfWords(n) : n \in RequestWordCounts}

RequestLengths == {"short", "medium", "long", "tiny"}

RequestModes == {"reliable", "creative"}

RequestKeys == {"text", "length", "mode"}

\* The JSON object holding the given keys, with these values.
MakeData(keys, t, l, m) ==
    [k \in keys |-> CASE k = "text" -> t [] k = "length" -> l [] k = "mode" -> m]

\* The JSON objects of a request: every key is optional.
RequestData ==
    {MakeData(keys, t, l, m) :
        keys \in SUBSET RequestKeys, t \in RequestTexts,
        l \in RequestLengths, m \in RequestModes}

\* The JSON objects of the requests of a longer run: the text missing, empty
\* or short, and a mode or none.
SeqData ==
    {MakeData(keys, t, "medium", m) :
        keys \in SUBSET {"text", "mode"},
        t \in {<<>>, TextOfWords(SHORT_INPUT_WORDS - 1)}, m \in {"creative"}}

\* The exceptions a collaborator may raise.
Raisable ==
    {[type |-> "IndexError", msg |-> "list index out of range"],
     [type |-> "RuntimeError", msg |-> "model failure"]}

\* The token counts the tokenizer may report for a text: it reports at
\* least one token per word, and nothing else is known of it.
TokenCounts(t) ==
    {Max(n, Len(split(t))) : n \in {1, MAX_TOKENS, MAX_TOKENS + 1}}

\* The summary texts the summarizer may produce.
SummaryTexts == {<<>>, <<"o", "k", ".">>}

\* What a summarizer call may return: a list of results, possibly empty.
SummarizerResults == {<<>>} \cup {<<[summary_text |-> s]>> : s \in SummaryTexts}

LogInitiated == [level |-> "info", msg |-> "Summarization request initiated."]
LogNoInput == [level |-> "error", msg |-> "No input text provided."]
LogShortInput ==
    [level |-> "warning", msg |-> "Short input received. The summary might not be accurate."]
LogTokens == [level |-> "info", msg |-> "Received text with {input_tokens} tokens."]
LogChunking ==
    [level |-> "warning", msg |-> "Input exceeds {MAX_TOKENS} tokens. Chunking the text."]
LogSuccess ==
    [level |-> "info", msg |-> "Summary generated successfully for text of length {len(text)}."]
LogCompleted == [level |-> "info", msg |-> "Summarization request completed."]

\* ------------------------------------------------------- handler actions

\* The except clause that catches e, then the finally clause: the response
\* is returned and the request is over.
Fail(e) ==
    /\ raised' = e
    /\ log' = log \o <<ExceptLog(e), LogCompleted>>
    /\ response' = ExceptResponse(e)
    /\ served' = Append(served, 500)
    /\ pc' = "done"
    /\ outs' = outs

\* The summary is known: derive the title and go on to persist.
Summarized(s) ==
    /\ summary' = s
    /\ outs' = Append(outs, s)
    /\ title' = TitleOf(s)
    /\ pc' = "save"
    /\ UNCHANGED <<raised, log, response, served>>

\* A request arrives: read the JSON object, log, validate, warn, pick the preset.
Receive(inputs, limit) ==
    /\ pc = "idle"
    /\ Len(served) < limit
    /\ \E data \in inputs :
        LET t == get(data, "text", <<>>)
            l == get(data, "length", "medium")
            m == get(data, "mode", "reliable")
        IN  /\ text' = t
            /\ length' = l
            /\ mode' = m
            /\ IF not_text(t)
               THEN /\ log' = <<LogInitiated, LogNoInput>>
                    /\ response' = [status |-> 400,
                                    body |-> [ok |-> FALSE, error |-> "Input text is required."]]
                    /\ served' = Append(served, 400)
                    /\ preset' = preset
                    /\ pc' = "done"
               ELSE /\ log' = IF Len(split(t)) < SHORT_INPUT_WORDS
                              THEN <<LogInitiated, LogShortInput>>
                              ELSE <<LogInitiated>>
                    /\ response' = response
                    /\ served' = served
                    /\ preset' = LengthPreset(l)
                    /\ pc' = "tokenize"
    /\ UNCHANGED <<input_tokens, chunks, partials, summary, title, calls, outs,
                   tok_calls, raised, records, genVars, titleVars>>

\* tokenizer.encode(text, truncation=False), then the choice of path.
Tokenize ==
    /\ pc = "tokenize"
    /\ tok_calls' = tok_calls + 1
    /\ \/ \E e \in Raisable :
            /\ Fail(e)
            /\ UNCHANGED <<input_tokens, chunks>>
       \/ \E n \in TokenCounts(text) :
            /\ input_tokens' = n
            /\ IF n > MAX_TOKENS
               THEN /\ log' = log \o <<LogTokens, LogChunking>>
                    /\ chunks' = chunk_text(text, DEFAULT_MAX_WORDS, DEFAULT_OVERLAP)
                    /\ pc' = "chunks"
               ELSE /\ log' = Append(log, LogTokens)
                    /\ chunks' = chunks
                    /\ pc' = "direct"
            /\ UNCHANGED <<raised, response, served>>
    /\ UNCHANGED <<text, length, mode, preset, partials, summary, title, calls,
                   outs, records, genVars, titleVars>>

\* The next summarizer call of the list comprehension over the chunks.
SummarizeChunk ==
    /\ pc = "chunks"
    /\ Len(partials) < Len(chunks)
    /\ calls' = Append(calls, [text |-> chunks[Len(partials) + 1],
                               kwargs |-> ChunkKwargs(preset, mode)])
    /\ \/ \E e \in Raisable :
            /\ Fail(e)
            /\ UNCHANGED partials
       \/ \E result \in SummarizerResults :
            IF result = <<>>
            THEN /\ Fail([type |-> "IndexError", msg |-> "list index out of range"])
                 /\ UNCHANGED partials
            ELSE /\ partials' = Append(partials, result[1].summary_text)
                 /\ outs' = Append(outs, result[1].summary_text)
                 /\ UNCHANGED <<pc, raised, log, response, served>>
    /\ UNCHANGED <<text, length, mode, preset, input_tokens, chunks, summary, title,
                   tok_calls, records, genVars, titleVars>>

\* Every chunk is summarized: the call of summarize_combined_chunks.
summarize_combined_chunks ==
    /\ pc = "chunks"
    /\ Len(partials) = Len(chunks)
    /\ calls' = Append(calls, [text |-> join(SPACE, partials),
                               kwargs |-> CombinedKwargs(preset, mode)])
    /\ \/ \E e \in Raisable :
            /\ Fail(e)
            /\ UNCHANGED <<summary, title>>
       \/ \E result \in SummarizerResults :
            IF result = <<>>
            THEN /\ Fail([type |-> "IndexError", msg |-> "list index out of range"])
                 /\ UNCHANGED <<summary, title>>
            ELSE Summarized(result[1].summary_text)
    /\ UNCHANGED <<text, length, mode, preset, input_tokens, chunks, partials,
                   tok_calls, records, genVars, titleVars>>

\* The one summarizer call on the whole text.
SummarizeDirect ==
    /\ pc = "direct"
    /\ calls' = Append(calls, [text |-> text, kwargs |-> DirectKwargs(preset, mode)])
    /\ \/ \E e \in Raisable :
            /\ Fail(e)
            /\ UNCHANGED <<summary, title>>
       \/ \E result \in SummarizerResults :
            IF result = <<>>
            THEN /\ Fail([type |-> "IndexError", msg |-> "list index out of range"])
                 /\ UNCHANGED <<summary, title>>
            ELSE Summarized(result[1].summary_text)
    /\ UNCHANGED <<text, length, mode, preset, input_tokens, chunks, partials,
                   tok_calls, records, genVars, titleVars>>

\* summary_record.save(), then the success response and the finally clause.
Save ==
    /\ pc = "save"
    /\ \/ \E e \in Raisable :
            /\ Fail(e)
            /\ UNCHANGED records
       \/ /\ records' = Append(records,
                               SummaryRecord(text, summary, title, Len(served) + 1))
          /\ log' = log \o <<LogSuccess, LogCompleted>>
          /\ response' = [status |-> 200,
                          body |-> [title |-> title, summary |-> summary,
                                    original_length |-> Len(split(text)),
                                    summary_length |-> Len(split(summary)),
                                    token_count |-> input_tokens]]
          /\ served' = Append(served, 200)
          /\ pc' = "done"
          /\ UNCHANGED <<raised, outs>>
    /\ UNCHANGED <<text, length, mode, preset, input_tokens, chunks, partials,
                   summary, title, calls, tok_calls, genVars, titleVars>>

\* The handler has returned: the response is sent and the call's local
\* variables are gone; the worker is ready for the next request.
Return ==
    /\ pc = "done"
    /\ pc' = "idle"
    /\ text' = <<>>
    /\ length' = "medium"
    /\ mode' = "reliable"
    /\ preset' = <<0, 0>>
    /\ input_tokens' = -1
    /\ chunks' = <<>>
    /\ partials' = <<>>
    /\ summary' = <<>>
    /\ title' = <<>>
    /\ calls' = <<>>
    /\ outs' = <<>>
    /\ tok_calls' = 0
    /\ raised' = NoExc
    /\ log' = <<>>
    /\ response' = NoResponse
    /\ UNCHANGED <<records, served, genVars, titleVars>>

Init == HandlerIdle /\ GenIdle /\ TitleIdle

Next ==
    \/ Receive(RequestData, MaxRequests)
    \/ Tokenize
    \/ SummarizeChunk
    \/ summarize_combined_chunks
    \/ SummarizeDirect
    \/ Save
    \/ Return

Spec == Init /\ [][Next]_vars

\* A longer run of requests, over the inputs of SeqData.
NextSeq ==
    \/ Receive(SeqData, MaxSeqRequests)
    \/ Tokenize
    \/ SummarizeChunk
    \/ summarize_combined_chunks
    \/ SummarizeDirect
    \/ Save
    \/ Return

SpecSeq == Init /\ [][NextSeq]_vars


\* ------------------------------------------- the chunk_text generator alone

\* The texts given to the generator: every string of letters and spaces.
ChunkTexts == UNION {[1..n -> {"a", " "}] : n \in 0..MaxTextLen}

InitChunk ==
    /\ HandlerIdle
    /\ TitleIdle
    /\ g_pc = "ready"
    /\ g_text \in ChunkTexts
    /\ g_max_words \in 1..MaxWords
    /\ g_overlap \in 0..(g_max_words - 1)
    /\ g_next = 0
    /\ g_starts = <<>>
    /\ g_out = <<>>

\* One iteration of the loop of chunk_text: the next index of the range, and
\* the chunk yielded there.
GenNext ==
    /\ g_pc \in {"ready", "running"}
    /\ LET words == split(g_text)
           idx == ChunkIndices(words, g_max_words, g_overlap)
       IN  /\ g_next < Len(idx)
           /\ g_out' = Append(g_out, ChunkAt(words, idx[g_next + 1], g_max_words))
           /\ g_starts' = Append(g_starts, idx[g_next + 1])
    /\ g_next' = g_next + 1
    /\ g_pc' = "running"
    /\ UNCHANGED <<g_text, g_max_words, g_overlap, handlerVars, titleVars>>

\* The range is exhausted: the generator returns.
GenStop ==
    /\ g_pc \in {"ready", "running"}
    /\ g_next = Len(ChunkIndices(split(g_text), g_max_words, g_overlap))
    /\ g_pc' = "done"
    /\ UNCHANGED <<g_text, g_max_words, g_overlap, g_next, g_starts, g_out,
                   handlerVars, titleVars>>

NextChunk == GenNext \/ GenStop

SpecChunk == InitChunk /\ [][NextChunk]_vars

\* --------------------------------------------- the title derivation alone

\* Word k of a summary whose word p ends the sentence.
SummaryWord(k, p) == IF k = p THEN <<"w", ".">> ELSE <<"w">>

\* The summaries given to the title derivation: n words, word p (if any)
\* ending with a period, separated by sep, with or without whitespace around.
TitleSummaries ==
    {lead \o join(sep, [k \in 1..n |-> SummaryWord(k, p)]) \o trail :
        n \in 0..MaxSummaryWords, p \in 0..MaxSummaryWords,
        sep \in {<<" ">>, <<" ", "\n">>},
        lead \in {<<>>, <<" ">>}, trail \in {<<>>, <<"\n">>}}

InitTitle ==
    /\ HandlerIdle
    /\ GenIdle
    /\ t_pc = "ready"
    /\ t_summary \in TitleSummaries
    /\ t_title = <<>>

\* Lines 141-145 of the handler on t_summary.
DeriveTitle ==
    /\ t_pc = "ready"
    /\ t_title' = TitleOf(t_summary)
    /\ t_pc' = "done"
    /\ UNCHANGED <<t_summary, handlerVars, genVars>>

NextTitle == DeriveTitle

SpecTitle == InitTitle /\ [][NextTitle]_vars


\* ----------------------------------------------------------------- claims

\* The preset the specification gives a requested length.
StatedPreset(l) ==
    CASE l = "short" -> [min |-> 15, max |-> 30]
      [] l = "long"  -> [min |-> 100, max |-> 180]
      [] OTHER       -> [min |-> 50, max |-> 100]

Response400 ==
    [status |-> 400, body |-> [ok |-> FALSE, error |-> "Input text is required."]]

\* C1: a request whose text is missing or empty is answered 400 with
\* {ok: false, error: "Input text is required."} at once: the tokenizer and
\* the summarizer are not invoked and no record is persisted, and nothing
\* more happens in that request.
C1_EmptyTextRejected ==
    [][ /\ (pc = "idle" /\ pc' # "idle" /\ text' = <<>>)
            => /\ pc' = "done"
               /\ response' = Response400
               /\ tok_calls' = 0
               /\ calls' = <<>>
               /\ records' = records
        /\ (pc = "done" /\ text = <<>>)
            => /\ pc' = "idle"
               /\ records' = records ]_vars

\* C1, reached: a request with no text has been answered 400 and logged the error.
C1_Witness ==
    /\ pc = "done"
    /\ text = <<>>
    /\ response.status = 400
    /\ LogNoInput \in {log[i] : i \in DOMAIN log}

\* The number of responses with status 200 returned so far.
Count200 == Cardinality({i \in DOMAIN served : served[i] = 200})

\* C2 (state part): there is one persisted record per 200 response, every
\* record has success = true, and a request about to return has persisted a
\* record, holding its text, summary and title, exactly when it returns 200.
C2_State ==
    /\ Len(records) = Count200
    /\ \A i \in DOMAIN records : records[i].success = TRUE /\ records[i].error = ""
    /\ pc = "done" =>
        /\ response.status \in {200, 400, 500}
        /\ response.status = served[Len(served)]
        /\ response.status = 200 =>
            /\ records # <<>>
            /\ records[Len(records)].text = text
            /\ records[Len(records)].summary = summary
            /\ records[Len(records)].title = title
            /\ records[Len(records)].createdAt = Len(served)
            /\ response.body.summary = summary
            /\ summary = outs[Len(outs)]
        /\ response.status # 200 =>
            \A i \in DOMAIN records : records[i].createdAt # Len(served)

\* C2 (step part): a step never changes or removes a persisted record, and it
\* adds one exactly when it returns a 200 response.
C2_Step ==
    /\ Len(records') >= Len(records)
    /\ SubSeq(records', 1, Len(records)) = records
    /\ Len(records') > Len(records)
        <=> (pc # "done" /\ pc' = "done" /\ response'.status = 200)
    /\ Len(records') <= Len(records) + 1

\* C2: after any sequence of requests the persisted records are exactly one
\* per request that returned 200 and none for a request that returned 400
\* or 500; every record has success = true; no request modifies or removes
\* an earlier record.
C2_OneRecordPerSuccess == []C2_State /\ [][C2_Step]_vars

\* C2, reached: the third request returns 200 with two records persisted, after a request that failed with 500.
C2_Witness ==
    /\ pc = "done"
    /\ response.status = 200
    /\ Len(records) = 2
    /\ Len(served) = 3
    /\ served[2] = 500

\* C3: a request whose token count is at most MAX_TOKENS does not chunk and
\* calls the summarizer exactly once, on the whole text, with the preset of
\* the requested length, num_beams 5, temperature 1.2, top_k 50, top_p 0.9 and
\* do_sample iff mode is "creative"; what that call returns is the summary.
C3_DirectCall ==
    (input_tokens >= 0 /\ input_tokens <= MAX_TOKENS) =>
        /\ chunks = <<>>
        /\ partials = <<>>
        /\ pc \in {"direct", "save", "done"}
        /\ pc = "direct" => calls = <<>>
        /\ pc \in {"save", "done"} =>
            calls = << [text |-> text,
                        kwargs |-> [max_length |-> StatedPreset(length).max,
                                    min_length |-> StatedPreset(length).min,
                                    num_beams |-> 5,
                                    do_sample |-> (mode = "creative"),
                                    temperature |-> "1.2",
                                    top_k |-> 50,
                                    top_p |-> "0.9"]] >>
        /\ (pc = "save" \/ (pc = "done" /\ raised = NoExc)) =>
            /\ outs # <<>>
            /\ summary = outs[1]
        /\ (pc = "done" /\ response.status = 200) => response.body.summary = outs[1]

\* C3, reached: a request of exactly MAX_TOKENS tokens, an unknown length and the creative mode has returned 200 after one call.
C3_Witness ==
    /\ pc = "done"
    /\ response.status = 200
    /\ input_tokens = MAX_TOKENS
    /\ length = "tiny"
    /\ mode = "creative"
    /\ Len(calls) = 1

\* The chunk call the specification states for chunk c.
StatedChunkCall(c) ==
    [text |-> c,
     kwargs |-> [max_length |-> StatedPreset(length).max,
                 min_length |-> StatedPreset(length).min,
                 do_sample |-> FALSE]]

\* The recombination call the specification states over the summaries ps.
StatedCombinedCall(ps) ==
    [text |-> join(SPACE, ps),
     kwargs |-> [max_length |-> StatedPreset(length).max,
                 min_length |-> StatedPreset(length).min,
                 num_beams |-> 5,
                 do_sample |-> (mode = "creative"),
                 top_k |-> 100,
                 top_p |-> "0.95"]]

\* A summarizer call without its temperature argument, of which the claim
\* says nothing.
WithoutTemperature(call) ==
    [text |-> call.text,
     kwargs |-> [k \in DOMAIN call.kwargs \ {"temperature"} |-> call.kwargs[k]]]

\* C4: a request whose token count exceeds MAX_TOKENS calls the summarizer
\* once per chunk of chunk_text(text, 700, 100), in chunk order, without
\* sampling and with the preset bounds, and only then once over the chunk
\* summaries joined by single spaces, with the preset bounds, num_beams 5,
\* top_k 100, top_p 0.95 and do_sample iff mode is "creative"; with no failure
\* that is (number of chunks) + 1 calls and the last one returns the summary.
C4_ChunkedCalls ==
    input_tokens > MAX_TOKENS =>
        LET cs == chunk_text(text, DEFAULT_MAX_WORDS, DEFAULT_OVERLAP)
            n  == Len(cs)
        IN  /\ Len(calls) <= n + 1
            /\ \A k \in DOMAIN calls :
                IF k <= n
                THEN calls[k] = StatedChunkCall(cs[k])
                ELSE /\ Len(outs) >= n
                     /\ WithoutTemperature(calls[k]) = StatedCombinedCall(SubSeq(outs, 1, n))
            /\ (pc = "save" \/ (pc = "done" /\ raised = NoExc)) =>
                /\ Len(calls) = n + 1
                /\ Len(outs) = n + 1
                /\ summary = outs[n + 1]
            /\ (pc = "done" /\ response.status = 200) =>
                response.body.summary = outs[n + 1]

\* C4, reached: a creative request of several chunks has returned 200 after one call per chunk and the recombination call.
C4_Witness ==
    /\ pc = "done"
    /\ response.status = 200
    /\ input_tokens > MAX_TOKENS
    /\ Len(chunks) >= 2
    /\ Len(calls) = Len(chunks) + 1
    /\ mode = "creative"
    /\ length = "long"

\* The title the specification gives a summary.
StatedTitle(s) ==
    LET j == join(SPACE, SubSeq(split(s), 1, Min(TITLE_WORDS, Len(split(s)))))
    IN  IF j = <<>> THEN UNTITLED
        ELSE IF endswith(j, PERIOD) THEN j
        ELSE j \o ELLIPSIS

\* C5: the title is "Untitled Summary" when the first 12 words of the summary
\* rejoined give the empty string; otherwise those words rejoined, with "..."
\* appended iff they do not end with a period.
C5_TitleAsStated == t_pc = "done" => t_title = StatedTitle(t_summary)

\* The error-level lines of the request's log.
ErrorLines == {i \in DOMAIN log : log[i].level = "error"}

\* C6 (state part): once a step has raised, the request is over with
\* status 500, the body {error: "Index error during summarization."} for an
\* IndexError and {error: <message>} otherwise, and one error line logged.
C6_State ==
    raised # NoExc =>
        /\ pc = "done"
        /\ response.status = 500
        /\ response.body =
            IF raised.type = "IndexError"
            THEN [error |-> "Index error during summarization."]
            ELSE [error |-> raised.msg]
        /\ Cardinality(ErrorLines) = 1

\* C6 (step part): after a failure the only step is the return of the
\* response: no call is retried and no further call is made.
C6_Step ==
    raised # NoExc =>
        /\ pc' = "idle"
        /\ raised' = NoExc
        /\ Len(served') = Len(served)

\* C6: a failure of any pipeline step gives 500 with the index-error body for
\* an IndexError and the exception's message otherwise; it is handled once,
\* nothing is retried and no summarizer call follows it.
C6_FailureHandledOnce == []C6_State /\ [][C6_Step]_vars

\* C6, reached: an IndexError after an earlier summarizer call has been answered with the index-error body.
C6_Witness ==
    /\ pc = "done"
    /\ raised.type = "IndexError"
    /\ Len(calls) >= 2
    /\ response.body.error = "Index error during summarization."

\* The words of chunk k of the generator.
ChunkWords(k) == split(g_out[k])

\* The word positions (1-based) chunk k covers.
ChunkSpan(k) == (g_starts[k] + 1)..(g_starts[k] + Len(ChunkWords(k)))

\* What the generator has left to do: the words it has not yet answered
\* with a chunk, and its return.
Remaining == (Len(split(g_text)) - Len(g_out)) + (IF g_pc = "done" THEN 0 ELSE 1)

\* C7 (state part): every chunk is a contiguous slice of at most max_words
\* words of the text's word sequence, the chunk starts strictly increase, and
\* when the generator has returned every word position lies in some chunk.
\* Until then the generator can take a step and Remaining is not negative.
C7_State ==
    LET words == split(g_text)
    IN  /\ Len(g_starts) = Len(g_out)
        /\ \A k \in DOMAIN g_out :
            /\ Len(ChunkWords(k)) <= g_max_words
            /\ g_starts[k] + Len(ChunkWords(k)) <= Len(words)
            /\ ChunkWords(k) = SubSeq(words, g_starts[k] + 1, g_starts[k] + Len(ChunkWords(k)))
        /\ \A k \in 1..(Len(g_out) - 1) : g_starts[k] < g_starts[k + 1]
        /\ g_pc = "done" =>
            \A q \in 1..Len(words) : \E k \in DOMAIN g_out : q \in ChunkSpan(k)
        /\ g_pc # "done" => ENABLED NextChunk
        /\ Remaining >= 0

\* C7 (step part): every step of the generator brings it nearer its return.
C7_Step == Remaining' < Remaining

\* C7: for 0 <= overlap < max_words chunk_text terminates (a step is always
\* possible until it returns, and each step lowers a natural number), and its
\* chunks are contiguous slices of at most max_words words, with strictly
\* increasing starts, that cover every word of the text.
C7_ChunksCover == []C7_State /\ [][C7_Step]_vars

\* C7, reached: the generator has returned after at least three overlapping chunks.
C7_Witness ==
    /\ g_pc = "done"
    /\ Len(g_out) >= 3
    /\ g_overlap >= 1
    /\ g_max_words >= 3

\* Chunks k and k + 1 share exactly overlap word positions, and the last
\* overlap words of chunk k are the first overlap words of chunk k + 1.
SharesOverlap(k) ==
    /\ Cardinality(ChunkSpan(k) \cap ChunkSpan(k + 1)) = g_overlap
    /\ Len(ChunkWords(k)) >= g_overlap
    /\ Len(ChunkWords(k + 1)) >= g_overlap
    /\ SubSeq(ChunkWords(k), Len(ChunkWords(k)) - g_overlap + 1, Len(ChunkWords(k)))
        = SubSeq(ChunkWords(k + 1), 1, g_overlap)

\* C8 as stated: every pair of consecutive chunks shares exactly overlap
\* words, except possibly the pair whose later chunk is the final chunk.
C8_AsStated ==
    g_pc = "done" => \A k \in 1..(Len(g_out) - 2) : SharesOverlap(k)

\* C8 as amended: a pair of consecutive chunks shares exactly overlap words
\* when the earlier chunk holds max_words words; when 2 * overlap <= max_words
\* that is every pair except possibly the one whose later chunk is final.
C8_FullChunksOverlap ==
    g_pc = "done" =>
        /\ \A k \in 1..(Len(g_out) - 1) :
            Len(ChunkWords(k)) = g_max_words => SharesOverlap(k)
        /\ 2 * g_overlap <= g_max_words =>
            \A k \in 1..(Len(g_out) - 2) : SharesOverlap(k)

\* C8, reached: the generator has returned at least three chunks, the first one full, with a positive overlap of at most half a window.
C8_Witness ==
    /\ g_pc = "done"
    /\ Len(g_out) >= 3
    /\ g_overlap >= 1
    /\ 2 * g_overlap <= g_max_words
    /\ Len(ChunkWords(1)) = g_max_words

\* C9 as stated: a non-empty text of fewer than max_words words gives exactly
\* one chunk, holding the whole word sequence.
C9_AsStated ==
    (g_pc = "done" /\ g_text # <<>> /\ Len(split(g_text)) < g_max_words) =>
        /\ Len(g_out) = 1
        /\ ChunkWords(1) = split(g_text)

\* C9 as amended: a text of at least one and at most max_words - overlap
\* words gives exactly one chunk, holding the whole word sequence.
C9_OneChunk ==
    (/\ g_pc = "done"
     /\ Len(split(g_text)) >= 1
     /\ Len(split(g_text)) <= g_max_words - g_overlap) =>
        /\ Len(g_out) = 1
        /\ ChunkWords(1) = split(g_text)

\* C9, reached: a text of two words, a window of four and an overlap of two: the generator has returned one chunk.
C9_Witness ==
    /\ g_pc = "done"
    /\ Len(split(g_text)) = 2
    /\ g_max_words = 4
    /\ g_overlap = 2
    /\ Len(g_out) = 1

\* C10: a request that logged "Summarization request initiated." has logged
\* "Summarization request completed." when its response is returned, however
\* it ends.
C10_CompletionLogged ==
    (pc = "done" /\ log # <<>> /\ log[1] = LogInitiated) => log[Len(log)] = LogCompleted

====
